---- MODULE Spec2Model ----
(***************************************************************************)
(* Model of src/main.py: the chunked, cache-backed, retrying batch         *)
(* extractor batch_extract_features_with_cache and the satellite point     *)
(* sampler extract_satellite_features it calls for every cache-miss chunk. *)
(*                                                                         *)
(* A DataFrame is a record [columns, index, rows]: columns is the sequence *)
(* of column labels, index the sequence of row labels and rows a sequence  *)
(* of rows, each a sequence of cell values aligned with columns.  A cache  *)
(* file is a record [exists, header, lines] (the CSV text: a header line   *)
(* and one line of fields per row; the index is not written).              *)
(***************************************************************************)
EXTENDS Integers, Sequences, FiniteSets, TLC

\* ------------------------------------------------------------------------
\* Bounds of the model
\* ------------------------------------------------------------------------
MaxRows == 3
MaxChunkSize == 2
MaxRetries == 2
MaxFailures == 2
MaxRuns == 2

\* ------------------------------------------------------------------------
\* Values
\* ------------------------------------------------------------------------
\* A missing value (numpy NaN); reflectances and features are naturals.
NaN == 0 - 1

Min(a, b) == IF a < b THEN a ELSE b

Range(s) == {s[j] : j \in 1..Len(s)}

\* pandas RangeIndex(n): the labels 0 .. n-1
RangeIndex(n) == [j \in 1..n |-> j - 1]

\* pd.DataFrame(): no columns, no rows
EmptyFrame == [columns |-> <<>>, index |-> <<>>, rows |-> <<>>]

NoFile == [exists |-> FALSE, header |-> <<>>, lines |-> <<>>]

\* ------------------------------------------------------------------------
\* Input table
\* ------------------------------------------------------------------------
\* The (latitude, longitude) pairs the input tables are built from, in model
\* units: rows 2 and 3 fall into the same raster pixel, row 1 comes last in
\* pixel order.
PointPattern == << <<2, 2>>, <<0, 0>>, <<1, 0>>, <<4, 3>> >>

PointAt(r) == PointPattern[((r - 1) % Len(PointPattern)) + 1]

\* The input table of n rows with its latitude and longitude columns
InputTable(n) ==
    [r \in 1..n |-> [latitude |-> PointAt(r)[1], longitude |-> PointAt(r)[2]]]

\* ------------------------------------------------------------------------
\* CSV cache files: DataFrame.to_csv(path, index=False) and pd.read_csv(path)
\* ------------------------------------------------------------------------
\* A CSV field: NaN is written as the empty field, a number as its digits.
FormatCell(v) == IF v = NaN THEN <<>> ELSE <<v>>

ParseCell(f) == IF f = <<>> THEN NaN ELSE f[1]

to_csv(frame) ==
    [exists |-> TRUE,
     header |-> frame.columns,
     lines  |-> [j \in 1..Len(frame.rows) |->
                   [c \in 1..Len(frame.rows[j]) |-> FormatCell(frame.rows[j][c])]]]

read_csv(file) ==
    [columns |-> file.header,
     index   |-> RangeIndex(Len(file.lines)),
     rows    |-> [j \in 1..Len(file.lines) |->
                   [c \in 1..Len(file.lines[j]) |-> ParseCell(file.lines[j][c])]]]

\* ------------------------------------------------------------------------
\* Satellite point sampler: extract_satellite_features
\* ------------------------------------------------------------------------
\* bands=None: Blue, Green, Red, NIR (B02, B03, B04, B08, by number)
DefaultBands == <<2, 3, 4, 8>>

\* resolution=10: the raster's pixel centres lie at the multiples of it
Resolution == 10

\* Point(lon, lat) for lat, lon in locations
GeoPoint(loc) == [x |-> loc[2], y |-> loc[1]]

\* gdf.to_crs(data.rio.crs): geographic to projected coordinates (four
\* projected units per model degree, so that no point is equidistant from
\* two pixel centres)
to_crs(g) == [x |-> 4 * g.x, y |-> 4 * g.y]

\* sel(..., method="nearest") on one axis: the closest pixel centre
NearestPixel(c) == Resolution * ((c + (Resolution \div 2)) \div Resolution)

\* The reflectance of band b in the first time slice at pixel (x, y); the
\* pixel at the origin has no data in band 8.
Raster(b, x, y) ==
    IF b = 8 /\ x = 0 /\ y = 0 THEN NaN ELSE (100 * b) + x + (y \div Resolution)

\* data_single_time.sel(x=[...], y=[...]).to_dataframe().reset_index(): the
\* selection is orthogonal, one cell for every band, every selected y and
\* every selected x, in long form (band slowest, x fastest).
Sampled(bands, xs, ys) ==
    LET nx == Len(xs)
        ny == Len(ys)
    IN  [j \in 1..(Len(bands) * ny * nx) |->
           LET b == bands[((j - 1) \div (ny * nx)) + 1]
               y == ys[(((j - 1) \div nx) % ny) + 1]
               x == xs[((j - 1) % nx) + 1]
           IN  [band |-> b, y |-> y, x |-> x, value |-> Raster(b, x, y)]]

\* Lexicographic order of the pivot's index entries (x, y)
KeyLess(k1, k2) == k1[1] < k2[1] \/ (k1[1] = k2[1] /\ k1[2] < k2[2])

RECURSIVE SortedKeys(_)
SortedKeys(S) ==
    IF S = {} THEN <<>>
    ELSE LET m == CHOOSE k \in S : \A o \in S \ {k} : KeyLess(k, o)
         IN  <<m>> \o SortedKeys(S \ {m})

RECURSIVE SortedInts(_)
SortedInts(S) ==
    IF S = {} THEN <<>>
    ELSE LET m == CHOOSE k \in S : \A o \in S : k <= o
         IN  <<m>> \o SortedInts(S \ {m})

\* A reshape that never finds duplicate entries (as pivot_table would)
PivotDuplicates_Never(long) == FALSE

\* pivot raises "Index contains duplicate entries" when two long rows share
\* (x, y, band)
PivotDuplicates(long) ==
    \E j1, j2 \in 1..Len(long) :
        /\ j1 # j2
        /\ long[j1].x = long[j2].x
        /\ long[j1].y = long[j2].y
        /\ long[j1].band = long[j2].band

\* df.pivot(index=["x","y"], columns="band", values="value")
\*   .reset_index(drop=True): one row per distinct (x, y) in sorted order,
\* one column per band in sorted band order.
Pivot(long) ==
    LET keys == SortedKeys({<<long[j].x, long[j].y>> : j \in 1..Len(long)})
        cols == SortedInts({long[j].band : j \in 1..Len(long)})
        Cell(k, b) ==
            long[CHOOSE j \in 1..Len(long) :
                    long[j].x = k[1] /\ long[j].y = k[2] /\ long[j].band = b].value
    IN  [columns |-> cols,
         index   |-> RangeIndex(Len(keys)),
         rows    |-> [r \in 1..Len(keys) |->
                        [c \in 1..Len(cols) |-> Cell(keys[r], cols[c])]]]

BandColumn(b) == [kind |-> "band", id |-> b]

Raised == [raised |-> TRUE, frame |-> EmptyFrame]

Returned(frame) == [raised |-> FALSE, frame |-> frame]

\* The columns named after the pivot's own (sorted) band labels
RenameColumns_Keep(wide, bands) ==
    Returned([wide EXCEPT
       !.columns = [c \in 1..Len(wide.columns) |-> BandColumn(wide.columns[c])]])

\* df.columns = [f"band_{b}" for b in bands]: the columns are renamed by
\* position; pandas raises when the number of names differs from the
\* number of columns.
RenameColumns(wide, bands) ==
    IF Len(wide.columns) # Len(bands) THEN Raised
    ELSE Returned([wide EXCEPT
           !.columns = [c \in 1..Len(bands) |-> BandColumn(bands[c])]])

\* The stacked raster has an empty dimension: no time step ("emptystack") or
\* no band (no asset was asked for)
EmptyStack(bands, env) == env = "emptystack" \/ bands = <<>>

\* coords = [(geom.x, geom.y) ...] taken to the nearest pixel centres, per axis
PixelXs(locations) ==
    [j \in 1..Len(locations) |-> NearestPixel(to_crs(GeoPoint(locations[j])).x)]

PixelYs(locations) ==
    [j \in 1..Len(locations) |-> NearestPixel(to_crs(GeoPoint(locations[j])).y)]

\* The sampler on one list of (lat, lon) pairs.  env is what the remote
\* services do during the call: "ok", "noitems" (the search matches
\* nothing), "emptystack" (the stacked raster has no time step) or "error"
\* (the catalog connection raises).
extract_satellite_features(locations, bands, env) ==
    IF env \in {"error", "noitems"} THEN Raised
    ELSE IF EmptyStack(bands, env) THEN Raised
    ELSE LET long == Sampled(bands, PixelXs(locations), PixelYs(locations))
         IN  IF PivotDuplicates(long) THEN Raised
             ELSE RenameColumns(Pivot(long), bands)
\* The steps of a call that looks at what the search found only once the
\* items are signed and stacked
SamplerSteps_LateCheck(locations, bands, env) ==
    IF env = "error" THEN <<"raise">>
    ELSE IF env = "noitems" \/ EmptyStack(bands, env)
         THEN <<"connect", "search", "sign", "stack", "project", "sample",
                "raise">>
    ELSE <<"connect", "search", "sign", "stack", "project", "sample",
           "pivot", "rename", "return">>

\* The steps of one sampler call that complete, in order, and how the call
\* ends: "connect" (the catalog client is opened), "search" (the item list
\* is fetched), "sign", "stack", "project" (to_crs), "sample" (sel and
\* to_dataframe), "pivot", "rename", then "return" or "raise".
SamplerSteps(locations, bands, env) ==
    IF env = "error" THEN <<"raise">>
    ELSE IF env = "noitems" THEN <<"connect", "search", "raise">>
    ELSE IF EmptyStack(bands, env)
         THEN <<"connect", "search", "sign", "stack", "raise">>
    ELSE LET long == Sampled(bands, PixelXs(locations), PixelYs(locations))
             upto == <<"connect", "search", "sign", "stack", "project", "sample">>
         IN  IF PivotDuplicates(long) THEN upto \o <<"raise">>
             ELSE IF RenameColumns(Pivot(long), bands).raised
                  THEN upto \o <<"pivot", "raise">>
                  ELSE upto \o <<"pivot", "rename", "return">>

SamplerEnvs == {"ok", "noitems", "emptystack", "error"}

\* ------------------------------------------------------------------------
\* Embedding-service backend: one feature row per point, in input order
\* ------------------------------------------------------------------------
MosaiksFeature(loc) == 50 + (10 * loc[1]) + loc[2]

get_features(locations, env) ==
    IF env # "ok" THEN Raised
    ELSE Returned([columns |-> <<[kind |-> "feature", id |-> 0]>>,
                   index   |-> RangeIndex(Len(locations)),
                   rows    |-> [j \in 1..Len(locations) |->
                                  <<MosaiksFeature(locations[j])>>]])

EmbeddingEnvs == {"ok", "error"}

\* The one step of an embedding-service call and how the call ends
EmbeddingSteps(env) ==
    IF env = "ok" THEN <<"get_features", "return">> ELSE <<"raise">>

\* ------------------------------------------------------------------------
\* pd.concat(frames, ignore_index=True)
\* ------------------------------------------------------------------------
RECURSIVE AppendNew(_, _)
AppendNew(cols, more) ==
    IF more = <<>> THEN cols
    ELSE AppendNew(IF more[1] \in Range(cols) THEN cols ELSE Append(cols, more[1]),
                   Tail(more))

\* The union of the frames' columns, in order of first appearance
RECURSIVE UnionColumns(_)
UnionColumns(frames) ==
    IF frames = <<>> THEN <<>>
    ELSE AppendNew(UnionColumns(SubSeq(frames, 1, Len(frames) - 1)),
                   frames[Len(frames)].columns)

\* The rows of a frame laid out on the columns cols; a column the frame
\* lacks is filled with NaN.
Reindexed(frame, cols) ==
    [r \in 1..Len(frame.rows) |->
       [c \in 1..Len(cols) |->
          IF cols[c] \in Range(frame.columns)
          THEN frame.rows[r][CHOOSE p \in 1..Len(frame.columns) :
                                frame.columns[p] = cols[c]]
          ELSE NaN]]

RECURSIVE StackRows(_, _)
StackRows(frames, cols) ==
    IF frames = <<>> THEN <<>>
    ELSE Reindexed(frames[1], cols) \o StackRows(Tail(frames), cols)

\* The concatenated frame with a fresh RangeIndex; pd.concat raises
\* ValueError("No objects to concatenate") on an empty list.
concat(frames) ==
    IF frames = <<>> THEN Raised
    ELSE LET cols == UnionColumns(frames)
             rows == StackRows(frames, cols)
         IN  Returned([columns |-> cols,
                       index   |-> RangeIndex(Len(rows)),
                       rows    |-> rows])

\* ------------------------------------------------------------------------
\* Batch extractor: batch_extract_features_with_cache
\* ------------------------------------------------------------------------
VARIABLES
    df,             \* the input table (argument df)
    chunk_size,     \* argument chunk_size
    max_retries,    \* argument max_retries
    backend,        \* the extraction function in use: "sampler" or "embedding"
    bands,          \* the band list the sampler is called with
    cache,          \* cache_dir: chunk index -> cache file
    pc,             \* position of the run: "idle", "loop", "fetch", "done",
                    \* "raised" (the call raised), "killed" (process ended)
    run,            \* 0 before the first call, then the number of the run
    i,              \* loop variable i of the chunk loop
    attempt,        \* loop variable attempt of the retry loop
    chunk,          \* df.iloc[i:i + chunk_size]
    chunk_idx,      \* i // chunk_size
    locations,      \* list(zip(chunk["latitude"], chunk["longitude"]))
    all_features,   \* the list of chunk results
    result,         \* the returned table, when pc = "done"
    failures,       \* backend faults injected so far
    events,         \* history of the run: cache checks, backend calls,
                    \* sleeps and cache writes, in order
    chunks,         \* history of the run: the chunks the loop has cut
    cache_at_start, \* the cache directory as the run found it
    cache_init,     \* the cache directory before the first run
    prev,           \* how the previous run ended
    senv,           \* what the remote services did during the last backend
                    \* call ("none" before the first one)
    strace,         \* the steps of the last backend call
    sout            \* the outcome of a direct call of the sampler

vars == <<df, chunk_size, max_retries, backend, bands, cache, pc, run, i,
          attempt, chunk, chunk_idx, locations, all_features, result,
          failures, events, chunks, cache_at_start, cache_init, prev,
          senv, strace, sout>>

\* What no step of a run of the batch extractor changes
params == <<df, chunk_size, max_retries, backend, bands, cache_init, sout>>

\* No direct sampler call has been made
NoCall == [raised |-> FALSE, frame |-> EmptyFrame]

\* range(0, len(df), chunk_size) never yields more chunk indices than this
ChunkIndices == 0..(MaxRows - 1)

\* len(range(0, n, c))
NumChunks(n, c) == (n + c - 1) \div c

\* s[a:b] of a Python sequence (0-based, end exclusive, clamped)
Slice(s, a, b) == SubSeq(s, a + 1, Min(b, Len(s)))

\* A cache file left behind by an earlier session: one row, one value missing
StaleFrame ==
    [columns |-> [c \in 1..Len(DefaultBands) |-> BandColumn(DefaultBands[c])],
     index   |-> RangeIndex(1),
     rows    |-> << <<7, NaN, 7, 7>> >>]

Event(op, k, ok) == [op |-> op, chunk |-> k, ok |-> ok]

EventsOf(log, op, k) == {j \in 1..Len(log) : log[j].op = op /\ log[j].chunk = k}

Init ==
    /\ \E n \in 0..MaxRows : df = InputTable(n)
    /\ chunk_size \in 1..MaxChunkSize
    /\ max_retries \in 1..MaxRetries
    /\ backend \in {"sampler", "embedding"}
    /\ bands = DefaultBands
    /\ \E pre \in SUBSET (0..(NumChunks(Len(df), chunk_size) - 1)) :
          cache = [k \in ChunkIndices |->
                     IF k \in pre THEN to_csv(StaleFrame) ELSE NoFile]
    /\ cache_init = cache
    /\ cache_at_start = cache
    /\ pc = "idle"
    /\ run = 0
    /\ i = 0
    /\ attempt = 0
    /\ chunk = <<>>
    /\ chunk_idx = 0
    /\ locations = <<>>
    /\ all_features = <<>>
    /\ result = EmptyFrame
    /\ failures = 0
    /\ events = <<>>
    /\ chunks = <<>>
    /\ prev = [pc |-> "none", result |-> EmptyFrame, written |-> {},
               exhausted |-> {}]
    /\ senv = "none"
    /\ strace = <<>>
    /\ sout = NoCall

\* The slice cut one row short
ChunkRows_Short(table, start, size) == Slice(table, start, start + size - 1)

\* df.iloc[i:i + chunk_size]
ChunkRows(table, start, size) == Slice(table, start, start + size)

\* i // chunk_size
ChunkIndex(start, size) == start \div size

\* The cache never consulted
CacheExists_Never(dir, k) == FALSE

\* os.path.exists(cache_path)
CacheExists(dir, k) == dir[k].exists

\* The cache file read with its first data row skipped
LoadChunk_SkipRow(dir, k) ==
    [read_csv(dir[k]) EXCEPT !.rows = Tail(@), !.index = RangeIndex(Len(@) - 1)]

\* pd.read_csv(cache_path)
LoadChunk(dir, k) == read_csv(dir[k])

\* The cache file written with the row labels as a first, unnamed column
\* (to_csv without index=False)
StoreChunk_WithIndex(dir, k, frame) ==
    [dir EXCEPT ![k] =
       [exists |-> TRUE,
        header |-> <<[kind |-> "unnamed", id |-> 0]>> \o frame.columns,
        lines  |-> [j \in 1..Len(frame.rows) |->
                      <<FormatCell(frame.index[j])>> \o to_csv(frame).lines[j]]]]

\* The cache file not written at all
StoreChunk_Skip(dir, k, frame) == dir

\* chunk_features.to_csv(cache_path, index=False)
StoreChunk(dir, k, frame) == [dir EXCEPT ![k] = to_csv(frame)]

\* list(zip(chunk["latitude"], chunk["longitude"]))
Locations(rows) == [j \in 1..Len(rows) |-> <<rows[j].latitude, rows[j].longitude>>]

\* The steps of the extraction call
ExtractSteps(kind, locs, bnds, env) ==
    IF kind = "sampler" THEN SamplerSteps(locs, bnds, env) ELSE EmbeddingSteps(env)

\* The extraction call of the retry loop
Extract(kind, locs, bnds, env) ==
    IF kind = "sampler" THEN extract_satellite_features(locs, bnds, env)
    ELSE get_features(locs, env)

Envs(kind) == IF kind = "sampler" THEN SamplerEnvs ELSE EmbeddingEnvs

\* The retry bound taken one too far
LastAttempt_OffByOne(a, m) == a = m + 1

\* if attempt == max_retries
LastAttempt(a, m) == a = m

\* The chunk result put in front of the list
AppendResult_Front(list, frame) == <<frame>> \o list

\* all_features.append(chunk_features)
AppendResult(list, frame) == Append(list, frame)

\* The chunks whose cache file the run has written
Written(log) == {log[j].chunk : j \in {n \in 1..Len(log) : log[n].op = "write"}}

\* The chunks among the first n the run finished without a successful call
\* and without a cache hit
ExhaustedIn(log, n) ==
    {k \in 0..(n - 1) :
        /\ EventsOf(log, "miss", k) # {}
        /\ \A j \in EventsOf(log, "call", k) : ~log[j].ok}

\* A call of batch_extract_features_with_cache begins: os.makedirs and the
\* empty result list.  The first call, or a later call over the same input
\* and cache directory once the previous one has ended.
Start ==
    /\ pc \in {"idle", "done", "raised", "killed"}
    /\ run < MaxRuns
    /\ pc' = "loop"
    /\ run' = run + 1
    /\ i' = 0
    /\ attempt' = 0
    /\ chunk' = <<>>
    /\ chunk_idx' = 0
    /\ locations' = <<>>
    /\ all_features' = <<>>
    /\ result' = EmptyFrame
    /\ events' = <<>>
    /\ chunks' = <<>>
    /\ cache_at_start' = cache
    /\ prev' = IF run = 0 THEN prev
               ELSE [pc |-> pc, result |-> result, written |-> Written(events),
                     exhausted |-> ExhaustedIn(events, Len(all_features))]
    /\ senv' = "none"
    /\ strace' = <<>>
    /\ UNCHANGED <<params, cache, failures>>

\* One iteration of the chunk loop whose cache file exists
CacheHit ==
    /\ pc = "loop"
    /\ i < Len(df)
    /\ LET rows == ChunkRows(df, i, chunk_size)
           k    == ChunkIndex(i, chunk_size)
       IN  /\ CacheExists(cache, k)
           /\ chunk' = rows
           /\ chunk_idx' = k
           /\ all_features' = AppendResult(all_features, LoadChunk(cache, k))
           /\ events' = Append(events, Event("hit", k, TRUE))
           /\ chunks' = Append(chunks, [idx |-> k, first |-> i, rows |-> rows])
    /\ i' = i + chunk_size
    /\ UNCHANGED <<senv, strace>>
    /\ UNCHANGED <<params, cache, pc, run, attempt, locations, result, failures,
                   cache_at_start, prev>>

\* One iteration of the chunk loop whose cache file is absent: up to the
\* start of the retry loop
CacheMiss ==
    /\ pc = "loop"
    /\ i < Len(df)
    /\ LET rows == ChunkRows(df, i, chunk_size)
           k    == ChunkIndex(i, chunk_size)
       IN  /\ ~CacheExists(cache, k)
           /\ chunk' = rows
           /\ chunk_idx' = k
           /\ locations' = Locations(rows)
           /\ events' = Append(events, Event("miss", k, TRUE))
           /\ chunks' = Append(chunks, [idx |-> k, first |-> i, rows |-> rows])
    /\ attempt' = 1
    /\ pc' = "fetch"
    /\ UNCHANGED <<senv, strace>>
    /\ UNCHANGED <<params, cache, run, i, all_features, result, failures,
                   cache_at_start, prev>>

\* The retry loop not left after a success (no break)
OnSuccess_NoBreak(frame) ==
    /\ cache' = StoreChunk(cache, chunk_idx, frame)
    /\ events' = events \o <<Event("call", chunk_idx, TRUE),
                             Event("write", chunk_idx, TRUE)>>
    /\ IF LastAttempt(attempt, max_retries)
       THEN /\ all_features' = AppendResult(all_features, frame)
            /\ i' = i + chunk_size
            /\ pc' = "loop"
            /\ UNCHANGED attempt
       ELSE /\ attempt' = attempt + 1
            /\ UNCHANGED <<all_features, i, pc>>

\* try: the extraction returned; the result is written to the cache file,
\* the retry loop is left and the result appended.
OnSuccess(frame) ==
    /\ cache' = StoreChunk(cache, chunk_idx, frame)
    /\ all_features' = AppendResult(all_features, frame)
    /\ events' = events \o <<Event("call", chunk_idx, TRUE),
                             Event("write", chunk_idx, TRUE)>>
    /\ i' = i + chunk_size
    /\ pc' = "loop"
    /\ UNCHANGED attempt

\* The empty result of an exhausted chunk written to the cache as well
OnError_Persist ==
    IF LastAttempt(attempt, max_retries)
    THEN /\ all_features' = AppendResult(all_features, EmptyFrame)
         /\ cache' = StoreChunk(cache, chunk_idx, EmptyFrame)
         /\ events' = events \o <<Event("call", chunk_idx, FALSE),
                                  Event("write", chunk_idx, TRUE)>>
         /\ i' = i + chunk_size
         /\ pc' = "loop"
         /\ UNCHANGED attempt
    ELSE /\ events' = events \o <<Event("call", chunk_idx, FALSE),
                                  Event("sleep", chunk_idx, TRUE)>>
         /\ attempt' = attempt + 1
         /\ UNCHANGED <<cache, all_features, i, pc>>

\* The exception of the last attempt let through to the caller
OnError_Reraise ==
    IF LastAttempt(attempt, max_retries)
    THEN /\ pc' = "raised"
         /\ events' = Append(events, Event("call", chunk_idx, FALSE))
         /\ UNCHANGED <<cache, attempt, all_features, i>>
    ELSE /\ events' = events \o <<Event("call", chunk_idx, FALSE),
                                  Event("sleep", chunk_idx, TRUE)>>
         /\ attempt' = attempt + 1
         /\ UNCHANGED <<cache, all_features, i, pc>>

\* except Exception: the last attempt records an empty frame, any other one
\* sleeps retry_delay and goes round the retry loop.
OnError ==
    IF LastAttempt(attempt, max_retries)
    THEN /\ all_features' = AppendResult(all_features, EmptyFrame)
         /\ events' = Append(events, Event("call", chunk_idx, FALSE))
         /\ i' = i + chunk_size
         /\ pc' = "loop"
         /\ UNCHANGED <<cache, attempt>>
    ELSE /\ events' = events \o <<Event("call", chunk_idx, FALSE),
                                  Event("sleep", chunk_idx, TRUE)>>
         /\ attempt' = attempt + 1
         /\ UNCHANGED <<cache, all_features, i, pc>>

\* One pass of the retry loop
Attempt ==
    /\ pc = "fetch"
    /\ \E env \in Envs(backend) :
          /\ env # "ok" => failures < MaxFailures
          /\ failures' = IF env = "ok" THEN failures ELSE failures + 1
          /\ senv' = env
          /\ strace' = ExtractSteps(backend, locations, bands, env)
          /\ LET out == Extract(backend, locations, bands, env)
             IN  IF out.raised THEN OnError ELSE OnSuccess(out.frame)
    /\ UNCHANGED <<params, run, chunk, chunk_idx, locations, result, chunks,
                   cache_at_start, prev>>

\* The chunk loop is over: return pd.concat(all_features, ignore_index=True)
Return ==
    /\ pc = "loop"
    /\ i >= Len(df)
    /\ LET out == concat(all_features)
       IN  IF out.raised
           THEN pc' = "raised" /\ result' = EmptyFrame
           ELSE pc' = "done" /\ result' = out.frame
    /\ UNCHANGED <<senv, strace>>
    /\ UNCHANGED <<params, cache, run, i, attempt, chunk, chunk_idx, locations,
                   all_features, failures, events, chunks, cache_at_start, prev>>

\* The process is ended before the next chunk iteration begins (only a run
\* that can still be followed by a restart is ended)
Terminate ==
    /\ pc = "loop"
    /\ run < MaxRuns
    /\ pc' = "killed"
    /\ UNCHANGED <<senv, strace>>
    /\ UNCHANGED <<params, cache, run, i, attempt, chunk, chunk_idx, locations,
                   all_features, result, failures, events, chunks,
                   cache_at_start, prev>>

Next == Start \/ CacheHit \/ CacheMiss \/ Attempt \/ Return \/ Terminate

Spec == Init /\ [][Next]_vars

\* ------------------------------------------------------------------------
\* Vocabulary of the properties
\* ------------------------------------------------------------------------
NumRows == Len(df)

\* The chunk indices of the input
InputChunks == {k \in ChunkIndices : k * chunk_size < NumRows}

Calls(k) == EventsOf(events, "call", k)

OkCalls(k) == {j \in Calls(k) : events[j].ok}

FailedCalls(k) == {j \in Calls(k) : ~events[j].ok}

Sleeps(k) == EventsOf(events, "sleep", k)

Writes(k) == EventsOf(events, "write", k)

\* The loop has finished chunk k: its result is entry k + 1 of the list
Finished(k) == k < Len(all_features)

\* The run found a cache file for chunk k
HitAtStart(k) == cache_at_start[k].exists

\* Chunk k was a cache miss and every extraction attempt for it failed
Exhausted(k) == Finished(k) /\ ~HitAtStart(k) /\ OkCalls(k) = {}

\* Chunk k was a cache miss and an extraction attempt for it succeeded
Extracted(k) == Finished(k) /\ ~HitAtStart(k) /\ OkCalls(k) # {}

\* The position in the history of the last event about chunk k
LastEvent(k) ==
    CHOOSE j \in 1..Len(events) :
        /\ events[j].chunk = k
        /\ \A n \in (j + 1)..Len(events) : events[n].chunk # k

\* The rows of the input that make up chunk k: [k*C, min((k+1)*C, N))
RowsOfChunk(k) ==
    [r \in 1..(Min((k + 1) * chunk_size, NumRows) - (k * chunk_size)) |->
        df[(k * chunk_size) + r]]

\* What the backend returns for chunk k when the services work
BackendFrame(k) ==
    LET locs == [r \in 1..Len(RowsOfChunk(k)) |->
                   <<RowsOfChunk(k)[r].latitude, RowsOfChunk(k)[r].longitude>>]
    IN  IF backend = "sampler"
        THEN extract_satellite_features(locs, bands, "ok")
        ELSE get_features(locs, "ok")

\* ------------------------------------------------------------------------
\* C1
\* ------------------------------------------------------------------------
\* C1 (cache hit): for every chunk whose cache file exists when the run
\* reaches it, the run makes no backend call, no sleep and no cache write
\* for that chunk, leaves the file as it is, and the chunk's result is the
\* rows stored in the file.
C1_CacheHit ==
    \A k \in ChunkIndices :
        (run >= 1 /\ HitAtStart(k)) =>
            /\ Calls(k) = {}
            /\ Sleeps(k) = {}
            /\ Writes(k) = {}
            /\ cache[k] = cache_at_start[k]
            /\ Finished(k) =>
                 /\ Len(all_features[k + 1].rows) = Len(cache_at_start[k].lines)
                 /\ \A r \in 1..Len(cache_at_start[k].lines) :
                      \A c \in 1..Len(cache_at_start[k].lines[r]) :
                         FormatCell(all_features[k + 1].rows[r][c])
                            = cache_at_start[k].lines[r][c]

\* A finished run with a chunk served from the cache and another extracted
C1_Witness ==
    /\ pc = "done"
    /\ \E k \in InputChunks : HitAtStart(k) /\ Finished(k)
    /\ \E k \in InputChunks : Extracted(k)

\* ------------------------------------------------------------------------
\* C2
\* ------------------------------------------------------------------------
\* C2 (retry bound): no chunk gets more than max_retries backend calls; a
\* cache-miss chunk whose every call failed got exactly max_retries calls
\* and max_retries - 1 sleeps, the last thing done for it is the failed
\* call and not a sleep, its result has zero rows, and the loop has moved on
\* past it.
C2_RetryBound ==
    \A k \in ChunkIndices :
        /\ Cardinality(Calls(k)) <= max_retries
        /\ Exhausted(k) =>
             /\ Cardinality(Calls(k)) = max_retries
             /\ Cardinality(Sleeps(k)) = max_retries - 1
             /\ events[LastEvent(k)].op = "call"
             /\ all_features[k + 1].rows = <<>>
             /\ pc \in {"loop", "fetch", "done", "killed"}
             /\ i = Len(all_features) * chunk_size

\* A chunk exhausted after more than one attempt, and a later chunk begun
C2_Witness ==
    \E k \in InputChunks :
        /\ Exhausted(k)
        /\ max_retries >= 2
        /\ Cardinality(FailedCalls(k)) = max_retries
        /\ Len(chunks) > k + 1

\* ------------------------------------------------------------------------
\* C3
\* ------------------------------------------------------------------------
\* Every chunk of the input had a cache file when the run began
FullCacheAtStart == \A k \in InputChunks : HitAtStart(k)

\* C3 (idempotence): a run that finds a cache file for every chunk makes no
\* backend call and changes no cache file; when it follows a run that
\* returned a table, it returns the same table.
C3_Idempotence ==
    (run >= 1 /\ FullCacheAtStart) =>
        /\ \A k \in ChunkIndices : Calls(k) = {}
        /\ cache = cache_at_start
        /\ (pc = "done" /\ run >= 2 /\ prev.pc = "done") => result = prev.result

\* A second run has returned, after a first run that extracted chunks (one of
\* them with a missing value) and returned
C3_Witness ==
    /\ pc = "done"
    /\ run = 2
    /\ prev.pc = "done"
    /\ FullCacheAtStart
    /\ prev.written # {}
    /\ \E r \in 1..Len(result.rows) : NaN \in Range(result.rows[r])

\* ------------------------------------------------------------------------
\* C4
\* ------------------------------------------------------------------------
\* The number of rows chunk k contributes when it is not exhausted
RowsExpected(k) ==
    IF HitAtStart(k) THEN Len(cache_at_start[k].lines)
    ELSE Len(BackendFrame(k).frame.rows)

RECURSIVE SumRows(_)
SumRows(S) ==
    IF S = {} THEN 0
    ELSE LET k == CHOOSE x \in S : TRUE
         IN  RowsExpected(k) + SumRows(S \ {k})

\* C4 (partial-failure tolerance): a run over a non-empty input never
\* raises; once it has ended with some chunk exhausted it has returned a
\* table, every chunk has been processed, the exhausted chunks contribute
\* zero rows and the row count of the table is the sum of the row counts of
\* the other chunks.
C4_PartialFailure ==
    /\ NumRows > 0 => pc # "raised"
    /\ (pc = "done" /\ \E k \in InputChunks : Exhausted(k)) =>
          /\ Len(all_features) = Cardinality(InputChunks)
          /\ \A k \in InputChunks : Finished(k)
          /\ \A k \in InputChunks : Exhausted(k) => all_features[k + 1].rows = <<>>
          /\ Len(result.rows) = SumRows({k \in InputChunks : ~Exhausted(k)})

\* A returned run over three chunks in which exactly one chunk, not the
\* last, was exhausted and a later chunk was extracted
C4_Witness ==
    /\ pc = "done"
    /\ Cardinality(InputChunks) >= 3
    /\ Cardinality({k \in InputChunks : Exhausted(k)}) = 1
    /\ \E k1, k2 \in InputChunks : k1 < k2 /\ Exhausted(k1) /\ Extracted(k2)
    /\ Len(result.rows) > 0

CreatedByExtraction(k) ==
    /\ pc = "fetch"
    /\ chunk_idx = k
    /\ ~BackendFrame(k).raised
    /\ cache'[k] = to_csv(BackendFrame(k).frame)
    /\ Len(events') = Len(events) + 2
    /\ events'[Len(events) + 1] = Event("call", k, TRUE)
    /\ events'[Len(events) + 2] = Event("write", k, TRUE)

\* C6 (write-once cache): no step of any run changes or removes a cache file
\* that exists, and a step that creates the cache file of a chunk is a
\* successful backend extraction of that chunk.
C6_WriteOnce ==
    [][\A k \in ChunkIndices :
          /\ cache[k].exists => cache'[k] = cache[k]
          /\ (~cache[k].exists /\ cache'[k].exists) => CreatedByExtraction(k)]_vars

\* In a second run: a file written by the first run is still there, another
\* chunk was exhausted and a third cache file has been written
C6_Witness ==
    /\ run = 2
    /\ prev.written # {}
    /\ \A k \in prev.written : cache[k].exists
    /\ \E k \in InputChunks : Exhausted(k)
    /\ \E k \in InputChunks : Writes(k) # {}

\* ------------------------------------------------------------------------
\* C7
\* ------------------------------------------------------------------------
\* The frame chunk k contributes to a run that starts from the first cache
\* directory, is not interrupted and meets no backend fault
UninterruptedFrame(k) ==
    IF cache_init[k].exists THEN read_csv(cache_init[k])
    ELSE BackendFrame(k).frame

UninterruptedResult ==
    concat([n \in 1..Cardinality(InputChunks) |-> UninterruptedFrame(n - 1)]).frame

\* C7 (resumability): a run started after a run that was ended between two
\* chunk iterations calls the backend only for chunks without a cache file,
\* never for a chunk the ended run persisted, and, when none of its chunks
\* is exhausted, returns the table of an uninterrupted run.
C7_Resumable ==
    (run >= 2 /\ prev.pc = "killed") =>
        /\ \A k \in ChunkIndices : Calls(k) # {} => ~HitAtStart(k)
        /\ \A k \in prev.written : Calls(k) = {} /\ cache[k] = cache_at_start[k]
        /\ (pc = "done" /\ \A k \in InputChunks : ~Exhausted(k)) =>
              result = UninterruptedResult

\* The restarted run has returned: the ended run had persisted a chunk and
\* left another one to the restarted run, which extracted it
C7_Witness ==
    /\ pc = "done"
    /\ run = 2
    /\ prev.pc = "killed"
    /\ prev.written # {}
    /\ \E k \in InputChunks : Extracted(k)
    /\ \A k \in InputChunks : ~Exhausted(k)

\* ------------------------------------------------------------------------
\* C8
\* ------------------------------------------------------------------------
\* ceil(n / c)
CeilDiv(n, c) == IF n % c = 0 THEN n \div c ELSE (n \div c) + 1

RECURSIVE FlattenRows(_)
FlattenRows(cs) ==
    IF cs = <<>> THEN <<>> ELSE cs[1].rows \o FlattenRows(Tail(cs))

\* C8 (chunking): the j-th chunk the loop cuts has index j - 1, which is
\* floor(start_row / C), and holds the rows [k*C, min((k+1)*C, N)); when
\* the loop is over it has cut ceil(N/C) chunks, they partition the input
\* in order, and the last one has N mod C rows, or C when N mod C = 0.
C8_Chunking ==
    /\ \A j \in 1..Len(chunks) :
          /\ chunks[j].idx = j - 1
          /\ chunks[j].first = (j - 1) * chunk_size
          /\ chunks[j].idx = chunks[j].first \div chunk_size
          /\ chunks[j].rows = RowsOfChunk(j - 1)
          /\ Len(chunks[j].rows) >= 1
          /\ Len(chunks[j].rows) <= chunk_size
    /\ pc \in {"done", "raised"} =>
          /\ Len(chunks) = CeilDiv(NumRows, chunk_size)
          /\ FlattenRows(chunks) = df
          /\ NumRows > 0 =>
               Len(chunks[Len(chunks)].rows) =
                  IF NumRows % chunk_size = 0 THEN chunk_size
                  ELSE NumRows % chunk_size

\* The loop is over for an input that does not divide into whole chunks
C8_Witness ==
    /\ pc = "done"
    /\ chunk_size >= 2
    /\ NumRows % chunk_size # 0
    /\ Len(chunks) >= 2

\* ------------------------------------------------------------------------
\* C9
\* ------------------------------------------------------------------------
\* The frame chunk k contributed to the run
ChunkFrame(k) ==
    IF HitAtStart(k) THEN read_csv(cache_at_start[k])
    ELSE IF Extracted(k) THEN BackendFrame(k).frame
    ELSE EmptyFrame

\* The frames the chunks contributed, in chunk order
ChunkFrames == [n \in 1..Cardinality(InputChunks) |-> ChunkFrame(n - 1)]

\* The number of rows in the first n frames
RECURSIVE RowsIn(_, _)
RowsIn(frames, n) ==
    IF n = 0 THEN 0 ELSE RowsIn(frames, n - 1) + Len(frames[n].rows)

\* The position of a column label in the returned table
ResultColumn(label) ==
    CHOOSE p \in 1..Len(result.columns) : result.columns[p] = label

\* The row the backend returns for row r of the input taken alone
PointRow(r) ==
    LET loc == <<df[r].latitude, df[r].longitude>>
    IN  IF backend = "sampler"
        THEN extract_satellite_features(<<loc>>, bands, "ok").frame.rows[1]
        ELSE get_features(<<loc>>, "ok").frame.rows[1]

\* The backend returns for chunk k one row per point, in input order
InInputOrder(k) ==
    /\ ~BackendFrame(k).raised
    /\ BackendFrame(k).frame.rows =
          [r \in 1..Len(RowsOfChunk(k)) |-> PointRow((k * chunk_size) + r)]

\* C9 (order preservation): the returned table holds the rows of the chunk
\* results one chunk after the other in increasing chunk index, each chunk's
\* rows in their own order, under a fresh index; so when the cache started
\* empty, no chunk was exhausted and the backend returns one row per point
\* in input order, output row r is the row of input row r.
C9_OrderPreserved ==
    pc = "done" =>
        LET frames == ChunkFrames
        IN  /\ Len(result.rows) = RowsIn(frames, Len(frames))
            /\ result.index = RangeIndex(Len(result.rows))
            /\ \A n \in 1..Len(frames) :
                 LET offset == RowsIn(frames, n - 1)
                     at == [c \in 1..Len(frames[n].columns) |->
                              ResultColumn(frames[n].columns[c])]
                 IN  \A r \in 1..Len(frames[n].rows) :
                        \A c \in 1..Len(frames[n].columns) :
                           result.rows[offset + r][at[c]] = frames[n].rows[r][c]
            /\ ( /\ \A k \in InputChunks : ~cache_init[k].exists
                 /\ \A k \in InputChunks : ~Exhausted(k)
                 /\ \A k \in InputChunks : InInputOrder(k) ) =>
                    /\ Len(result.rows) = NumRows
                    /\ \A r \in 1..NumRows : result.rows[r] = PointRow(r)

\* A returned table of three rows from two chunks of a backend that keeps
\* input order
C9_Witness ==
    /\ pc = "done"
    /\ NumRows = 3
    /\ chunk_size = 2
    /\ \A k \in InputChunks : ~cache_init[k].exists
    /\ \A k \in InputChunks : Extracted(k) /\ InInputOrder(k)
    /\ PointRow(1) # PointRow(2)

\* ------------------------------------------------------------------------
\* C10
\* ------------------------------------------------------------------------
AllCalls == {j \in 1..Len(events) : events[j].op = "call"}

NoFailedCall == \A j \in AllCalls : events[j].ok

\* C10 (success stops retrying): a cache-miss chunk whose extraction
\* succeeded has exactly one successful call, which is its last call and at
\* most the max_retries-th, one sleep before each call but the first, the
\* extracted frame as its cache file and as its result; a returned run
\* without a failed call made as many backend calls as there were chunks
\* without a cache file, and returns one row per input row when every chunk
\* contributes as many rows as it has points.
C10_SuccessStops ==
    /\ \A k \in InputChunks :
          Extracted(k) =>
             /\ Cardinality(OkCalls(k)) = 1
             /\ \A j \in FailedCalls(k) : \A n \in OkCalls(k) : j < n
             /\ Cardinality(Calls(k)) = Cardinality(FailedCalls(k)) + 1
             /\ Cardinality(Calls(k)) <= max_retries
             /\ Cardinality(Sleeps(k)) = Cardinality(Calls(k)) - 1
             /\ events[LastEvent(k)].op = "write"
             /\ cache[k] = to_csv(BackendFrame(k).frame)
             /\ all_features[k + 1] = BackendFrame(k).frame
    /\ (pc = "done" /\ NoFailedCall) =>
          /\ Cardinality(AllCalls)
                = Cardinality({k \in InputChunks : ~HitAtStart(k)})
          /\ (\A k \in InputChunks : RowsExpected(k) = Len(RowsOfChunk(k))) =>
                Len(result.rows) = NumRows

\* A returned run of three chunks: the middle one served from the cache, the
\* others extracted, one of them at its second attempt
C10_Witness ==
    /\ pc = "done"
    /\ Cardinality(InputChunks) = 3
    /\ HitAtStart(1)
    /\ Extracted(0)
    /\ Extracted(2)
    /\ \E k \in InputChunks : Extracted(k) /\ Cardinality(FailedCalls(k)) = 1

\* A returned run without a failed call: chunk 1 served from the cache, two
\* backend calls, one output row per input row
C10_Scenario ==
    /\ pc = "done"
    /\ NoFailedCall
    /\ Cardinality(InputChunks) = 3
    /\ HitAtStart(1)
    /\ Cardinality(AllCalls) = 2
    /\ Len(result.rows) = NumRows

\* ------------------------------------------------------------------------
\* Direct calls of the sampler
\* ------------------------------------------------------------------------
\* The points sampler calls are made with
SamplerPoints == Range(PointPattern)

\* The band lists sampler calls are made with: none, one band, sorted,
\* unsorted, a repeated band, the default
BandLists == {<<>>, <<3>>, <<2, 3>>, <<8, 2>>, <<2, 2>>, DefaultBands}

SamplerInit ==
    /\ \E n \in 1..MaxRows : locations \in [1..n -> SamplerPoints]
    /\ bands \in BandLists
    /\ senv = "none"
    /\ strace = <<>>
    /\ sout = NoCall
    /\ pc = "sampler"
    /\ df = <<>>
    /\ chunk_size = 1
    /\ max_retries = 1
    /\ backend = "sampler"
    /\ cache = [k \in ChunkIndices |-> NoFile]
    /\ cache_init = cache
    /\ cache_at_start = cache
    /\ run = 0
    /\ i = 0
    /\ attempt = 0
    /\ chunk = <<>>
    /\ chunk_idx = 0
    /\ all_features = <<>>
    /\ result = EmptyFrame
    /\ failures = 0
    /\ events = <<>>
    /\ chunks = <<>>
    /\ prev = [pc |-> "none", result |-> EmptyFrame, written |-> {},
               exhausted |-> {}]

\* One call extract_satellite_features(locations, bands=bands)
SamplerCall ==
    /\ pc = "sampler"
    /\ senv = "none"
    /\ \E env \in SamplerEnvs :
          /\ senv' = env
          /\ strace' = SamplerSteps(locations, bands, env)
          /\ sout' = extract_satellite_features(locations, bands, env)
    /\ UNCHANGED <<df, chunk_size, max_retries, backend, bands, cache, pc, run,
                   i, attempt, chunk, chunk_idx, locations, all_features,
                   result, failures, events, chunks, cache_at_start,
                   cache_init, prev>>

SamplerNext == SamplerCall

SpecSampler == SamplerInit /\ [][SamplerNext]_vars

\* The sampler call has returned a table
SamplerReturned == senv # "none" /\ ~sout.raised

\* The nearest pixel of the j-th point of the call
PixelOf(j) == <<PixelXs(locations)[j], PixelYs(locations)[j]>>

\* ------------------------------------------------------------------------
\* C11
\* ------------------------------------------------------------------------
\* C11 (sampler row count): a sampler call that returns a table returns one
\* row per input point.
C11_AsStated ==
    SamplerReturned => Len(sout.frame.rows) = Len(locations)

\* What the call returns instead: one row for every pair of a selected x
\* and a selected y
C11_GridRows ==
    SamplerReturned =>
        Len(sout.frame.rows)
           = Cardinality(Range(PixelXs(locations)))
                * Cardinality(Range(PixelYs(locations)))

\* ------------------------------------------------------------------------
\* C12
\* ------------------------------------------------------------------------
\* Two distinct points of the call have the same nearest pixel
SamePixelPair ==
    \E j1, j2 \in 1..Len(locations) :
        /\ locations[j1] # locations[j2]
        /\ PixelOf(j1) = PixelOf(j2)

\* C12 as stated (duplicate-pixel collapse): when two distinct points of a
\* call round to the same pixel and the services work, the call returns a
\* table with fewer rows than points.
C12_AsStated ==
    (SamePixelPair /\ senv = "ok" /\ bands # <<>>) =>
        (~sout.raised /\ Len(sout.frame.rows) < Len(locations))

\* C12 amended: when two distinct points of a call round to the same pixel,
\* the call raises and returns no table; when the services work and bands
\* are asked for, everything up to the sampling completes and it is the
\* pivot that raises.
C12_DuplicatePixelRaises ==
    (SamePixelPair /\ senv # "none") =>
        /\ sout.raised
        /\ sout.frame = EmptyFrame
        /\ strace[Len(strace)] = "raise"
        /\ (senv = "ok" /\ bands # <<>>) =>
              strace = <<"connect", "search", "sign", "stack", "project",
                         "sample", "raise">>

\* A call with working services, two distinct points in one pixel and a
\* band list without repetition has raised in the pivot
C12_Witness ==
    /\ SamePixelPair
    /\ senv = "ok"
    /\ bands = <<2, 3>>
    /\ Len(locations) = 2
    /\ sout.raised
    /\ Len(strace) = 7

\* ------------------------------------------------------------------------
\* C13
\* ------------------------------------------------------------------------
\* C13 (sampler column naming): the columns of a returned table are band_b
\* for each b of the caller's band list, in the caller's order.
C13_ColumnNames ==
    SamplerReturned =>
        sout.frame.columns = [c \in 1..Len(bands) |-> BandColumn(bands[c])]

\* A table returned for a band list that is not in sorted order
C13_Witness ==
    /\ SamplerReturned
    /\ bands = <<8, 2>>
    /\ Len(sout.frame.rows) >= 1

\* ------------------------------------------------------------------------
\* C15
\* ------------------------------------------------------------------------
\* The pixels of the returned rows, in row order
RowPixels ==
    SortedKeys({<<x, y>> : x \in Range(PixelXs(locations)),
                           y \in Range(PixelYs(locations))})

\* C15 (column/value correspondence): in a returned table the column named
\* band_b holds, in every row, the value of band b at the row's pixel.
C15_AsStated ==
    SamplerReturned =>
        \A r \in 1..Len(sout.frame.rows) :
            \A c \in 1..Len(sout.frame.columns) :
                sout.frame.rows[r][c]
                   = Raster(sout.frame.columns[c].id, RowPixels[r][1], RowPixels[r][2])

\* For a band list in sorted order the correspondence holds
C15_SortedBands ==
    (SamplerReturned /\ \A c \in 1..(Len(bands) - 1) : bands[c] < bands[c + 1]) =>
        \A r \in 1..Len(sout.frame.rows) :
            \A c \in 1..Len(sout.frame.columns) :
                sout.frame.rows[r][c]
                   = Raster(sout.frame.columns[c].id, RowPixels[r][1], RowPixels[r][2])

\* ------------------------------------------------------------------------
\* C14
\* ------------------------------------------------------------------------
\* The steps of the last sampler call did not get to any of the given ones
NotReached(steps, names) == \A j \in 1..Len(steps) : steps[j] \notin names

\* The step is what the retry loop does with a failed attempt: nothing is
\* written, the failed call is logged, and either the loop sleeps and goes
\* on to the next attempt or, on the last attempt, the chunk gets an empty
\* frame and the chunk loop goes on.
FailedAttemptStep ==
    /\ cache' = cache
    /\ Len(events') > Len(events)
    /\ events'[Len(events) + 1] = Event("call", chunk_idx, FALSE)
    /\ IF attempt < max_retries
       THEN /\ events' = events \o <<Event("call", chunk_idx, FALSE),
                                     Event("sleep", chunk_idx, TRUE)>>
            /\ attempt' = attempt + 1
            /\ pc' = "fetch"
            /\ all_features' = all_features
       ELSE /\ events' = Append(events, Event("call", chunk_idx, FALSE))
            /\ all_features' = Append(all_features, EmptyFrame)
            /\ pc' = "loop"

\* C14 (sampler precondition failures): a sampler call whose search finds
\* no item raises before signing, stacking and sampling; one whose stack has
\* no time step or no band raises before sampling; in the retry loop either
\* is a failed attempt of the current chunk, handled as the attempt of any
\* other backend error is.
C14_PreconditionFailures ==
    [][(pc = "fetch" /\ senv' \in {"noitems", "emptystack", "error"}) =>
          /\ strace'[Len(strace')] = "raise"
          /\ senv' = "noitems" =>
                NotReached(strace', {"sign", "stack", "project", "sample",
                                     "pivot", "rename", "return"})
          /\ senv' = "emptystack" =>
                NotReached(strace', {"project", "sample", "pivot", "rename",
                                     "return"})
          /\ FailedAttemptStep]_vars

\* An empty search result has been retried: the call stopped after the
\* search, the loop slept and is about to make the second attempt
C14_Witness ==
    /\ pc = "fetch"
    /\ backend = "sampler"
    /\ senv = "noitems"
    /\ strace = <<"connect", "search", "raise">>
    /\ attempt = 2
    /\ Len(events) >= 2
    /\ events[Len(events) - 1] = Event("call", chunk_idx, FALSE)
    /\ events[Len(events)] = Event("sleep", chunk_idx, TRUE)
    /\ ~cache[chunk_idx].exists

\* ------------------------------------------------------------------------
\* C16
\* ------------------------------------------------------------------------
\* C16 (the orchestrator never raises): no call of
\* batch_extract_features_with_cache ends with an exception, for any number
\* of input rows N >= 0 and any pattern of backend failures.
C16_AsStated == pc # "raised"

\* For an input of at least one row the call does not raise
C16_NonEmptyInput == NumRows >= 1 => pc # "raised"

\* ------------------------------------------------------------------------
\* C17
\* ------------------------------------------------------------------------
\* C17 (failed chunks are redone): an exhausted chunk has no cache file; a
\* run calls the backend for exactly the chunks that had no cache file when
\* it started, at most max_retries times each; so the chunks the previous
\* run exhausted are among those the next run calls the backend for.
C17_FailedChunksRedone ==
    /\ \A k \in InputChunks :
          /\ Exhausted(k) => ~cache[k].exists
          /\ Finished(k) => (Calls(k) # {} <=> ~HitAtStart(k))
          /\ HitAtStart(k) => Calls(k) = {}
          /\ Cardinality(Calls(k)) <= max_retries
    /\ run >= 2 =>
          \A k \in prev.exhausted :
              /\ ~HitAtStart(k)
              /\ Finished(k) => Calls(k) # {}

\* A second run has called the backend again for a chunk the first run
\* exhausted and for no chunk the first run wrote
C17_Witness ==
    /\ run = 2
    /\ pc = "done"
    /\ prev.written # {}
    /\ \E k \in prev.exhausted : Calls(k) # {} /\ Extracted(k)
    /\ \A k \in prev.written : HitAtStart(k) /\ Calls(k) = {}

\* ------------------------------------------------------------------------
\* C18
\* ------------------------------------------------------------------------
\* C18 (strictly sequential chunk processing): in the history of a run no
\* cache check, call, sleep or write of a chunk comes after one of a later
\* chunk; while a backend call can be made every earlier chunk is finished
\* and no later one begun, so calls never overlap; no cache file is written
\* twice.
C18_Sequential ==
    /\ \A a, b \in 1..Len(events) :
          a < b => events[a].chunk <= events[b].chunk
    /\ \A j \in 1..Len(events) : events[j].chunk <= Len(all_features)
    /\ pc = "fetch" =>
          /\ chunk_idx = Len(all_features)
          /\ \A j \in 1..Len(events) : events[j].chunk <= chunk_idx
    /\ \A k \in InputChunks : Cardinality(Writes(k)) <= 1

\* A returned run of three chunks, each with a backend call, two of them
\* written and one retried
C18_Witness ==
    /\ pc = "done"
    /\ Cardinality(InputChunks) = 3
    /\ \A k \in InputChunks : Calls(k) # {}
    /\ Writes(0) # {}
    /\ Writes(2) # {}
    /\ \E k \in InputChunks : Sleeps(k) # {}

====
